---- MODULE Spec2Model ----
(***************************************************************************)
(* Google Trends Explorer (src/Trend_App.py): the Streamlit script's       *)
(* "Analyze" pipeline, the methods of GoogleTrendsExplorer and             *)
(* get_country_code.                                                       *)
(*                                                                         *)
(* Spec         one script run after another: the widgets are read, and    *)
(*              when Analyze is pressed with keywords the chain of         *)
(*              provider calls runs step by step (one action per provider  *)
(*              call, sleep or display block), the provider's answer to    *)
(*              each call being any of the answers it can give.            *)
(* SpecMethods  Spec plus direct calls of get_country_code, of the three   *)
(*              fetch methods and of the top-regions expression on inputs  *)
(*              that the script itself does not produce.                   *)
(*                                                                         *)
(* The timeframe widget is handed to build_payload unchanged and decides   *)
(* nothing in the script; it is not part of the state.  Both Analyze       *)
(* blocks (sidebar visible, lines 205-264; hidden, lines 274-329) are the  *)
(* same code and are modelled by the same actions.                         *)
(***************************************************************************)
EXTENDS Integers, Sequences, FiniteSets, TLC

VARIABLES
  show_custom_sidebar, \* st.session_state.show_custom_sidebar
  keywords,            \* app.keywords
  geo,                 \* app.geo
  top_n,               \* the "Top N regions" slider
  min_interest,        \* the "Minimum interest" slider
  analyze_clicked,     \* st.button("Analyze") of the current script run
  pc,                  \* position of the script inside the Analyze block
  log,                 \* provider requests and sleeps of the current run
  interest_df,         \* local interest_df
  region_df,           \* local region_df
  fr,                  \* local fr (the filtered top regions)
  related_df,          \* local related_df
  shown,               \* what the current run has put on the page
  exc,                 \* the exception in flight / last handled
  ret                  \* the last direct call of a method and its result

vars == <<show_custom_sidebar, keywords, geo, top_n, min_interest,
          analyze_clicked, pc, log, interest_df, region_df, fr, related_df,
          shown, exc, ret>>

(***************************************************************************)
(* Bounds of the model.                                                    *)
(***************************************************************************)
MaxRegions == 4
MaxAppRegions == 2
MaxInterest == 2
MaxTopN == 3
MaxRelated == 11
MaxLen == 4

(***************************************************************************)
(* Program constants.                                                      *)
(***************************************************************************)
TopNMin == 5
TopNDefault == 10
HeadLimit == 10
AnalyzeSleep == 1
RelatedSleep == 1

Min(a, b) == IF a < b THEN a ELSE b

Range(s) == {s[i] : i \in DOMAIN s}

SeqsUpTo(S, n) == UNION {[1..k -> S] : k \in 0..n}

(***************************************************************************)
(* Text.  A string is a sequence of one-character strings.                 *)
(***************************************************************************)
LowerLetters == {"a", "b", "c", "u"}
UpperLetters == {"A", "B", "C", "U"}
Letters == LowerLetters \cup UpperLetters
Whitespace == {" "}
Digits == {"1"}
Chars == Letters \cup Whitespace \cup Digits
\* the characters a typed country input is made of in the model
InputChars == {"a", "b", "c", "u", "C", "U", " ", "1"}

\* str.upper() and str.lower(), character by character
UpperChar(c) ==
  CASE c = "a" -> "A" [] c = "b" -> "B" [] c = "c" -> "C" [] c = "u" -> "U"
    [] OTHER -> c

LowerChar(c) ==
  CASE c = "A" -> "a" [] c = "B" -> "b" [] c = "C" -> "c" [] c = "U" -> "u"
    [] OTHER -> c

StrUpper(s) == [i \in 1..Len(s) |-> UpperChar(s[i])]

StrLower(s) == [i \in 1..Len(s) |-> LowerChar(s[i])]

\* str.isalpha(): non-empty and every character a letter
StrIsAlpha(s) == Len(s) > 0 /\ \A i \in 1..Len(s) : s[i] \in Letters

RECURSIVE LStrip(_)
LStrip(s) ==
  IF s # <<>> /\ Head(s) \in Whitespace THEN LStrip(Tail(s)) ELSE s

RECURSIVE RStrip(_)
RStrip(s) ==
  IF s # <<>> /\ s[Len(s)] \in Whitespace
  THEN RStrip(SubSeq(s, 1, Len(s) - 1))
  ELSE s

\* str.strip()
StrStrip(s) == RStrip(LStrip(s))

(***************************************************************************)
(* pycountry.countries: the records of the registry that can be spelled    *)
(* with Chars, with the fields lookup() compares.                          *)
(***************************************************************************)
Countries ==
  { [name |-> <<"C", "u", "b", "a">>,
     alpha_2 |-> <<"C", "U">>,
     alpha_3 |-> <<"C", "U", "B">>] }

CountryFields == {"name", "alpha_2", "alpha_3"}

\* pycountry.countries.lookup(value): the records one of whose fields equals
\* value when both are lower-cased; none raises LookupError
CountriesLookup(value) ==
  {c \in Countries : \E f \in CountryFields : StrLower(c[f]) = StrLower(value)}

\* get_country_code without the upper() of line 60
get_country_code_no_upper(user_input) ==
  IF user_input = <<>> THEN <<>>
  ELSE LET stripped == StrStrip(user_input)
           found == CountriesLookup(stripped)
       IN IF Len(stripped) = 2 /\ StrIsAlpha(stripped)
          THEN stripped
          ELSE IF found = {} THEN <<>>
               ELSE (CHOOSE c \in found : TRUE).alpha_2

get_country_code(user_input) ==
  IF user_input = <<>> THEN <<>>
  ELSE LET stripped == StrStrip(user_input)
           found == CountriesLookup(stripped)
       IN IF Len(stripped) = 2 /\ StrIsAlpha(stripped)
          THEN StrUpper(stripped)
          ELSE IF found = {} THEN <<>>
               ELSE (CHOOSE c \in found : TRUE).alpha_2

(***************************************************************************)
(* Widgets.                                                                *)
(***************************************************************************)
Keywords == {"cats", "dogs"}

\* the keyword inputs typed in a script run, as keyword_str.split(",") with
\* every piece stripped: "" is a blank piece, <<"">> the empty box
KeywordStrs ==
  {<<"">>, <<"", "">>, <<"cats">>, <<"", "dogs">>, <<"cats", "dogs">>}

\* set_user_input, lines 80-83: self.keywords stays [] when the box is empty
ParseKeywords(pieces) ==
  IF pieces = <<"">> THEN <<>>
  ELSE SelectSeq(pieces, LAMBDA k : k # "")

\* the country inputs typed in a script run
CountryInputs == {<<>>, <<"C", "u", "b", "a">>, <<"1">>}

TopNChoices == {TopNMin, TopNDefault}

MinInterestChoices == {0, MaxInterest}

(***************************************************************************)
(* Provider answers.                                                       *)
(***************************************************************************)
Exceptions == {"ResponseError", "ConnectionError"}

\* a handler that catches the rate-limit rejection only
ExceptResponseErrorOnly(e) == e = "ResponseError"

\* "except Exception as e" of the Analyze blocks, lines 263 and 328
AnalyzeCatches(e) == e \in Exceptions

\* "except Exception" of get_related_queries_df, line 185
RelatedCatches(e) == e \in Exceptions

\* a time-series frame: its columns and whether it has rows
EmptyDF == [columns |-> {}, hasRows |-> FALSE]

InterestOverTimeAnswers(kws) ==
  {EmptyDF} \cup
  [columns : {Range(kws), Range(kws) \cup {"isPartial"}, {"isPartial"}},
   hasRows : BOOLEAN]

\* an emptiness test that looks at the columns only
DFEmptyColumnsOnly(df) == df.columns = {}

\* DataFrame.empty of a time-series frame
DFEmpty(df) == df.columns = {} \/ ~df.hasRows

\* a region frame: its columns and, row by row in provider order, the region
\* name and the interest value in the first keyword's column
EmptyRegionDF == [columns |-> {}, rows |-> <<>>]

RegionRows(n) ==
  UNION {{[i \in 1..k |-> [geoName |-> i, interest |-> v[i]]] :
            v \in [1..k -> 0..MaxInterest]} : k \in 0..n}

RegionColumns(kws) ==
  IF kws = <<>> THEN {{}}
  ELSE {{}, Range(kws), Range(kws) \ {kws[1]}}

InterestByRegionAnswers(kws, n) ==
  [columns : RegionColumns(kws), rows : RegionRows(n)]

\* DataFrame.empty of a region frame
RegionEmpty(df) == df.columns = {} \/ df.rows = <<>>

\* related_queries(): a dict keyword -> {"top": frame or None, ...}; a "top"
\* frame is its rows, numbered in provider order
Absent == [isNone |-> TRUE, rows |-> <<>>]

Frame(rows) == [isNone |-> FALSE, rows |-> rows]

RelatedEntries ==
  {[hasTop |-> FALSE, top |-> Absent], [hasTop |-> TRUE, top |-> Absent]}
  \cup {[hasTop |-> TRUE, top |-> Frame([i \in 1..k |-> i])] : k \in 0..MaxRelated}

NoEntry == [hasTop |-> FALSE, top |-> Absent]

\* the dict's keys and the entry stored under each of them
RelatedAnswers ==
  {[keys |-> {}, entry |-> NoEntry]}
  \cup [keys : (SUBSET Keywords) \ {{}}, entry : RelatedEntries]

(***************************************************************************)
(* The pure parts of the pipeline.                                         *)
(***************************************************************************)
\* fetch_interest_over_time_df, lines 108-110
DropIsPartial(df) ==
  IF "isPartial" \in df.columns
  THEN [df EXCEPT !.columns = df.columns \ {"isPartial"}]
  ELSE df

\* a filter with an exclusive boundary
FilterMinStrict(rows, m) == SelectSeq(rows, LAMBDA r : r.interest > m)

\* region_df[region_df[first_keyword] >= min_interest], lines 245 and 311
FilterMin(rows, m) == SelectSeq(rows, LAMBDA r : r.interest >= m)

RemoveAt(s, i) == SubSeq(s, 1, i - 1) \o SubSeq(s, i + 1, Len(s))

SeqMax(rows) ==
  CHOOSE v \in {rows[i].interest : i \in DOMAIN rows} :
    \A j \in DOMAIN rows : rows[j].interest <= v

\* sort_values(by=first_keyword, ascending=False), lines 245-246 and 311-312,
\* with pandas' default kind="quicksort", which is not a stable sort: the rows
\* come out in descending order of the value, rows of equal value in an order
\* the call does not fix.  The set of the orders it can return.
RECURSIVE SortDescending(_)
SortDescending(rows) ==
  IF rows = <<>> THEN {<<>>}
  ELSE UNION {{<<rows[i]>> \o t : t \in SortDescending(RemoveAt(rows, i))} :
                i \in {j \in DOMAIN rows : rows[j].interest = SeqMax(rows)}}

\* .head(n)
DFHead(rows, n) == SubSeq(rows, 1, Min(n, Len(rows)))

\* the frames fr the expression of lines 245-246 / 311-312 can evaluate to
TopRegions(rows, m, n) ==
  {DFHead(t, n) : t \in SortDescending(FilterMin(rows, m))}

\* an extraction that returns the whole "top" frame
ExtractTopUncut(related, kws) ==
  IF kws = <<>> THEN Absent
  ELSE LET entry == IF kws[1] \in related.keys THEN related.entry ELSE NoEntry
           top == IF entry.hasTop THEN entry.top ELSE Absent
       IN IF ~top.isNone /\ top.rows # <<>> THEN Frame(top.rows) ELSE Absent

\* get_related_queries_df, lines 179-184, and the implicit return None
ExtractTop(related, kws) ==
  IF kws = <<>> THEN Absent
  ELSE LET entry == IF kws[1] \in related.keys THEN related.entry ELSE NoEntry
           top == IF entry.hasTop THEN entry.top ELSE Absent
       IN IF ~top.isNone /\ top.rows # <<>>
          THEN Frame(DFHead(top.rows, HeadLimit))
          ELSE Absent

(***************************************************************************)
(* The methods of GoogleTrendsExplorer that talk to the provider.  A call  *)
(* ends in one of its outcomes: the requests and sleeps it made, in order, *)
(* the exception it raised ("none": it returned), the value it returned    *)
(* and the provider's answer to its last request.                          *)
(***************************************************************************)
Request(op) == [op |-> op, secs |-> 0]

Sleep(secs) == [op |-> "sleep", secs |-> secs]

Outcome(requests, e, value) == [requests |-> requests, exc |-> e, value |-> value]

\* self.pytrends.build_payload(...), lines 106, 116, 208 and 276
BuildPayload ==
  {Outcome(<<Request("build_payload")>>, e, EmptyDF) : e \in Exceptions \cup {"none"}}

\* fetch_interest_over_time_df without the guard of lines 103-104
fetch_interest_over_time_df_unguarded(kws) ==
  {Outcome(<<Request("build_payload")>>, e, EmptyDF) : e \in Exceptions}
  \cup {Outcome(<<Request("build_payload"), Request("interest_over_time")>>,
                e, EmptyDF) : e \in Exceptions}
  \cup {Outcome(<<Request("build_payload"), Request("interest_over_time")>>,
                "none", DropIsPartial(a)) : a \in InterestOverTimeAnswers(kws)}

\* fetch_interest_over_time_df, lines 102-110
fetch_interest_over_time_df(kws) ==
  IF kws = <<>> THEN {Outcome(<<>>, "none", EmptyDF)}
  ELSE {Outcome(<<Request("build_payload")>>, e, EmptyDF) : e \in Exceptions}
       \cup {Outcome(<<Request("build_payload"), Request("interest_over_time")>>,
                     e, EmptyDF) : e \in Exceptions}
       \cup {Outcome(<<Request("build_payload"), Request("interest_over_time")>>,
                     "none", DropIsPartial(a)) : a \in InterestOverTimeAnswers(kws)}

\* get_interest_by_region asking for the time series once more before the
\* region breakdown
get_interest_by_region_refetch(kws, n) ==
  IF kws = <<>> THEN {Outcome(<<>>, "none", EmptyRegionDF)}
  ELSE {Outcome(<<Request("build_payload"), Request("interest_over_time"),
                  Request("interest_by_region")>>,
                "none", a) : a \in InterestByRegionAnswers(kws, n)}

\* get_interest_by_region, lines 112-118; n bounds the rows of the answer
get_interest_by_region(kws, n) ==
  IF kws = <<>> THEN {Outcome(<<>>, "none", EmptyRegionDF)}
  ELSE {Outcome(<<Request("build_payload")>>, e, EmptyRegionDF) : e \in Exceptions}
       \cup {Outcome(<<Request("build_payload"), Request("interest_by_region")>>,
                     e, EmptyRegionDF) : e \in Exceptions}
       \cup {Outcome(<<Request("build_payload"), Request("interest_by_region")>>,
                     "none", a) : a \in InterestByRegionAnswers(kws, n)}

\* get_related_queries_df, lines 175-186; answer is what related_queries()
\* returned, or the exception it raised
RelatedOutcome(e, value, answer) ==
  [requests |-> <<Sleep(RelatedSleep), Request("related_queries")>>,
   exc |-> e, value |-> value, answer |-> answer]

get_related_queries_df(kws) ==
  {RelatedOutcome(IF RelatedCatches(e) THEN "none" ELSE e, Absent,
                  [raised |-> e, dict |-> [keys |-> {}, entry |-> NoEntry]]) :
     e \in Exceptions}
  \cup {RelatedOutcome("none", ExtractTop(a, kws), [raised |-> "none", dict |-> a]) :
          a \in RelatedAnswers}

(***************************************************************************)
(* The script.                                                             *)
(***************************************************************************)
NoCall == [call |-> "none"]

Init ==
  /\ show_custom_sidebar = TRUE
  /\ keywords = <<>>
  /\ geo = <<>>
  /\ top_n = TopNDefault
  /\ min_interest = 0
  /\ analyze_clicked = FALSE
  /\ pc = "idle"
  /\ log = <<>>
  /\ interest_df = EmptyDF
  /\ region_df = EmptyRegionDF
  /\ fr = <<>>
  /\ related_df = Absent
  /\ shown = {}
  /\ exc = "none"
  /\ ret = NoCall

\* an exception raised inside the try of an Analyze block, lines 206 and 275
Throw(e) ==
  /\ exc' = e
  /\ pc' = IF AnalyzeCatches(e) THEN "except" ELSE "escaped"

\* One run of the script up to the Analyze button: the hamburger button
\* (lines 26-27), set_user_input (76-100), the sliders (200-201, 271-272) and
\* the guard of lines 205 and 274.  Every run starts from a fresh
\* GoogleTrendsExplorer (line 189) and a fresh page.
Rerun ==
  /\ pc = "idle"
  /\ \E pieces \in KeywordStrs, country \in CountryInputs, n \in TopNChoices,
        m \in MinInterestChoices, click \in {"none", "hamburger", "analyze"} :
       /\ show_custom_sidebar' =
            IF click = "hamburger" THEN ~show_custom_sidebar ELSE show_custom_sidebar
       /\ keywords' = ParseKeywords(pieces)
       /\ geo' = get_country_code(StrStrip(country))
       /\ top_n' = n
       /\ min_interest' = m
       /\ analyze_clicked' = (click = "analyze")
       /\ pc' = IF click = "analyze" /\ ParseKeywords(pieces) # <<>>
                THEN "build_payload" ELSE "idle"
  /\ log' = <<>>
  /\ interest_df' = EmptyDF
  /\ region_df' = EmptyRegionDF
  /\ fr' = <<>>
  /\ related_df' = Absent
  /\ shown' = {}
  /\ exc' = "none"
  /\ UNCHANGED ret

\* lines 208 and 276
AnalyzeBuildPayload ==
  /\ pc = "build_payload"
  /\ \E o \in BuildPayload :
       /\ log' = log \o o.requests
       /\ \/ o.exc = "none" /\ pc' = "sleep" /\ UNCHANGED exc
          \/ o.exc # "none" /\ Throw(o.exc)
  /\ UNCHANGED <<show_custom_sidebar, keywords, geo, top_n, min_interest,
                 analyze_clicked, interest_df, region_df, fr, related_df, shown, ret>>

\* lines 209 and 277
AnalyzeSleepStep ==
  /\ pc = "sleep"
  /\ log' = Append(log, Sleep(AnalyzeSleep))
  /\ pc' = "fetch_interest"
  /\ UNCHANGED <<show_custom_sidebar, keywords, geo, top_n, min_interest,
                 analyze_clicked, interest_df, region_df, fr, related_df, shown,
                 exc, ret>>

\* lines 211 and 279
AnalyzeFetchInterest ==
  /\ pc = "fetch_interest"
  /\ \E o \in fetch_interest_over_time_df(keywords) :
       /\ log' = log \o o.requests
       /\ \/ o.exc = "none" /\ interest_df' = o.value /\ pc' = "show_interest"
             /\ UNCHANGED exc
          \/ o.exc # "none" /\ Throw(o.exc) /\ UNCHANGED interest_df
  /\ UNCHANGED <<show_custom_sidebar, keywords, geo, top_n, min_interest,
                 analyze_clicked, region_df, fr, related_df, shown, ret>>

\* lines 213-229 and 281-296
AnalyzeShowInterest ==
  /\ pc = "show_interest"
  /\ \/ DFEmpty(interest_df) /\ shown' = shown \cup {"no_trend_data"} /\ pc' = "done"
     \/ ~DFEmpty(interest_df) /\ shown' = shown \cup {"time_chart", "download_csv"}
        /\ pc' = "fetch_region"
  /\ UNCHANGED <<show_custom_sidebar, keywords, geo, top_n, min_interest,
                 analyze_clicked, log, interest_df, region_df, fr, related_df,
                 exc, ret>>

\* lines 233 and 300
AnalyzeFetchRegion ==
  /\ pc = "fetch_region"
  /\ \E o \in get_interest_by_region(keywords, MaxAppRegions) :
       /\ log' = log \o o.requests
       /\ \/ o.exc = "none" /\ region_df' = o.value /\ pc' = "show_region"
             /\ UNCHANGED exc
          \/ o.exc # "none" /\ Throw(o.exc) /\ UNCHANGED region_df
  /\ UNCHANGED <<show_custom_sidebar, keywords, geo, top_n, min_interest,
                 analyze_clicked, interest_df, fr, related_df, shown, ret>>

\* lines 234-252 and 301-317: the map, then the top-regions bar chart
AnalyzeShowRegion ==
  /\ pc = "show_region"
  /\ LET map == IF RegionEmpty(region_df) THEN {} ELSE {"map"}
     IN IF ~RegionEmpty(region_df) /\ keywords # <<>>
           /\ keywords[1] \in region_df.columns
        THEN \E t \in TopRegions(region_df.rows, min_interest, top_n) :
               /\ fr' = t
               /\ shown' = shown \cup map
                           \cup (IF t # <<>> THEN {"bar_chart"} ELSE {})
        ELSE fr' = fr /\ shown' = shown \cup map
  /\ pc' = "fetch_related"
  /\ UNCHANGED <<show_custom_sidebar, keywords, geo, top_n, min_interest,
                 analyze_clicked, log, interest_df, region_df, related_df,
                 exc, ret>>

\* lines 256-257 and 321-322
AnalyzeFetchRelated ==
  /\ pc = "fetch_related"
  /\ \E o \in get_related_queries_df(keywords) :
       /\ log' = log \o o.requests
       /\ \/ o.exc = "none" /\ related_df' = o.value /\ pc' = "show_related"
             /\ UNCHANGED exc
          \/ o.exc # "none" /\ Throw(o.exc) /\ UNCHANGED related_df
  /\ shown' = shown \cup {"related_header"}
  /\ UNCHANGED <<show_custom_sidebar, keywords, geo, top_n, min_interest,
                 analyze_clicked, interest_df, region_df, fr, ret>>

\* lines 258-261 and 323-326
AnalyzeShowRelated ==
  /\ pc = "show_related"
  /\ shown' = shown \cup (IF related_df.isNone THEN {"no_related_queries"}
                          ELSE {"related_table"})
  /\ pc' = "done"
  /\ UNCHANGED <<show_custom_sidebar, keywords, geo, top_n, min_interest,
                 analyze_clicked, log, interest_df, region_df, fr, related_df,
                 exc, ret>>

\* lines 263-264 and 328-329
AnalyzeExcept ==
  /\ pc = "except"
  /\ shown' = shown \cup {"something_went_wrong"}
  /\ pc' = "done"
  /\ UNCHANGED <<show_custom_sidebar, keywords, geo, top_n, min_interest,
                 analyze_clicked, log, interest_df, region_df, fr, related_df,
                 exc, ret>>

\* The end of the file: the run of the script is over.  Its locals and the
\* explorer object are gone; the page and the widgets' values stay until the
\* next run.
ScriptEnd ==
  /\ pc = "done"
  /\ pc' = "idle"
  /\ log' = <<>>
  /\ interest_df' = EmptyDF
  /\ region_df' = EmptyRegionDF
  /\ fr' = <<>>
  /\ related_df' = Absent
  /\ exc' = "none"
  /\ UNCHANGED <<show_custom_sidebar, keywords, geo, top_n, min_interest,
                 analyze_clicked, shown, ret>>

Next ==
  \/ Rerun
  \/ AnalyzeBuildPayload
  \/ AnalyzeSleepStep
  \/ AnalyzeFetchInterest
  \/ AnalyzeShowInterest
  \/ AnalyzeFetchRegion
  \/ AnalyzeShowRegion
  \/ AnalyzeFetchRelated
  \/ AnalyzeShowRelated
  \/ AnalyzeExcept
  \/ ScriptEnd

Spec == Init /\ [][Next]_vars

(***************************************************************************)
(* Direct calls.  get_country_code and the top-regions expression are      *)
(* called on inputs of their own before any run of the script; the three   *)
(* methods are called on the explorer of a run that analysed nothing.  A   *)
(* direct call is the last thing that happens.                             *)
(***************************************************************************)
FreshRun == pc = "idle" /\ shown = {} /\ ret = NoCall

UnchangedScript ==
  UNCHANGED <<show_custom_sidebar, keywords, geo, top_n, min_interest,
              analyze_clicked, pc, log, interest_df, region_df, fr, related_df,
              shown, exc>>

CallGetCountryCode ==
  /\ Init
  /\ \E s \in SeqsUpTo(InputChars, MaxLen) :
       ret' = [call |-> "get_country_code", arg |-> s,
               result |-> get_country_code(s)]
  /\ UnchangedScript

CallTopRegions ==
  /\ Init
  /\ \E rows \in RegionRows(MaxRegions), m \in 0..MaxInterest, n \in 0..MaxTopN :
       \E t \in TopRegions(rows, m, n) :
         ret' = [call |-> "top_regions", rows |-> rows, m |-> m, n |-> n, fr |-> t]
  /\ UnchangedScript

CallFetchInterestOverTime ==
  /\ FreshRun
  /\ \E o \in fetch_interest_over_time_df(keywords) :
       ret' = [call |-> "fetch_interest_over_time_df", kws |-> keywords,
               outcome |-> o]
  /\ UnchangedScript

CallGetInterestByRegion ==
  /\ FreshRun
  /\ \E o \in get_interest_by_region(keywords, MaxAppRegions) :
       ret' = [call |-> "get_interest_by_region", kws |-> keywords, outcome |-> o]
  /\ UnchangedScript

CallGetRelatedQueries ==
  /\ FreshRun
  /\ \E o \in get_related_queries_df(keywords) :
       ret' = [call |-> "get_related_queries_df", kws |-> keywords, outcome |-> o]
  /\ UnchangedScript

NextMethods ==
  \/ CallGetCountryCode
  \/ CallTopRegions
  \/ CallFetchInterestOverTime
  \/ CallGetInterestByRegion
  \/ CallGetRelatedQueries
  \/ (ret = NoCall /\ Next)

SpecMethods == Init /\ [][NextMethods]_vars

(***************************************************************************)
(* Properties.                                                             *)
(***************************************************************************)
FetchOps == {"interest_over_time", "interest_by_region", "related_queries"}

\* the fetches of the current analysis, in the order they were issued
LogFetches == SelectSeq(log, LAMBDA r : r.op \in FetchOps)

Requested(op) == \E i \in DOMAIN log : log[i].op = op

IsPrefix(s, t) == Len(s) <= Len(t) /\ \A i \in DOMAIN s : s[i] = t[i]

\* the delay, in seconds, the specification asks for before a fetch
ClaimedDelay(op) == IF op = "related_queries" THEN 3 ELSE 1

\* C1: every fetch of an analysis (interest-over-time, interest-by-region,
\* related-queries) comes after a sleep of at least the asked length (1 s, and
\* 3 s for related-queries) that was made since the previous fetch.
C1_ThrottleBeforeEveryFetch ==
  \A i \in DOMAIN log :
    log[i].op \in FetchOps =>
      \E j \in 1..(i - 1) :
        /\ log[j].op = "sleep"
        /\ log[j].secs >= ClaimedDelay(log[i].op)
        /\ \A k \in (j + 1)..(i - 1) : log[k].op \notin FetchOps

\* C2: a provider error in one fetch costs that section only; in particular an
\* analysis that issued the region request has, when it ends, issued the
\* related-queries request too, whether or not the region request failed.
C2_LaterSectionsStillFetched ==
  (pc = "done" /\ Requested("interest_by_region")) => Requested("related_queries")

\* C3: whatever the provider answers or raises, no exception escapes the
\* Analyze block: the script is never left by an exception, every step of an
\* analysis has a next step, an ended analysis has put results or a message on
\* the page, and the script then accepts the next action.
C3_NoExceptionEscapes ==
  /\ pc # "escaped"
  /\ pc \notin {"idle", "done"} => ENABLED Next
  /\ pc = "done" =>
       /\ shown \cap {"time_chart", "no_trend_data", "something_went_wrong"} # {}
       /\ ENABLED ScriptEnd
  /\ pc = "idle" => ENABLED Rerun

\* an analysis that a provider error ended, with its message on the page
C3_Witness ==
  pc = "done" /\ exc # "none" /\ "something_went_wrong" \in shown
  /\ Requested("interest_by_region")

\* C9: the fetches of an analysis are issued in the order time series, region
\* breakdown, related queries, each at most once and none before the one
\* before it has returned.
C9_FetchesInOrder ==
  IsPrefix([i \in DOMAIN LogFetches |-> LogFetches[i].op],
           <<"interest_over_time", "interest_by_region", "related_queries">>)

\* an analysis that has issued all three fetches
C9_Witness == pc = "show_related" /\ Len(LogFetches) = Cardinality(FetchOps)

\* C10: the region and related-queries requests are issued only after a
\* time series that has columns and rows; an analysis whose time series came
\* back empty issues neither and shows the "no trend data" message alone.
C10_EmptySeriesStopsAnalysis ==
  /\ (Requested("interest_by_region") \/ Requested("related_queries")) =>
       (interest_df.columns # {} /\ interest_df.hasRows)
  /\ (pc = "done" /\ exc = "none"
      /\ (interest_df.columns = {} \/ ~interest_df.hasRows)) =>
       /\ shown = {"no_trend_data"}
       /\ ~Requested("interest_by_region")
       /\ ~Requested("related_queries")

\* an analysis ended by an empty time series that has rows but no column left
C10_Witness ==
  /\ pc = "done" /\ exc = "none" /\ Requested("interest_over_time")
  /\ interest_df.columns = {} /\ interest_df.hasRows
  /\ shown = {"no_trend_data"}

\* the rows of a frame whose value is at least m
AtLeast(rows, m) == {i \in DOMAIN rows : rows[i].interest >= m}

\* C4: the filtered top regions have at most n rows, every value in them is at
\* least m, a row whose value is exactly m is kept when nothing is cut off,
\* and the rows are in descending order of the value.
C4_TopRegionsFiltered ==
  ret.call = "top_regions" =>
    /\ Len(ret.fr) <= ret.n
    /\ \A i \in DOMAIN ret.fr : ret.fr[i].interest >= ret.m
    /\ \A i, j \in DOMAIN ret.fr : i < j => ret.fr[i].interest >= ret.fr[j].interest
    /\ Range(ret.fr) \subseteq Range(ret.rows)
    /\ Cardinality(AtLeast(ret.rows, ret.m)) <= ret.n =>
         \A i \in DOMAIN ret.rows :
           ret.rows[i].interest = ret.m => ret.rows[i] \in Range(ret.fr)

\* a table cut to n rows that keeps a row whose value is exactly m > 0
C4_Witness ==
  /\ ret.call = "top_regions"
  /\ ret.m > 0 /\ ret.n > 0
  /\ Len(ret.fr) = ret.n
  /\ Cardinality(AtLeast(ret.rows, ret.m)) > ret.n
  /\ \E i \in DOMAIN ret.fr : ret.fr[i].interest = ret.m
  /\ \E i \in DOMAIN ret.rows : ret.rows[i].interest < ret.m

\* C5: the descending sort is stable: rows of equal value keep the order they
\* have in the region table (a row's geoName is its place there), and of the
\* rows of equal value the cut keeps the earlier ones.
C5_SortIsStable ==
  ret.call = "top_regions" =>
    /\ \A i, j \in DOMAIN ret.fr :
         (i < j /\ ret.fr[i].interest = ret.fr[j].interest) =>
           ret.fr[i].geoName < ret.fr[j].geoName
    /\ \A i \in DOMAIN ret.fr : \A k \in DOMAIN ret.rows :
         (ret.rows[k].interest = ret.fr[i].interest
          /\ ret.rows[k] \notin Range(ret.fr)) =>
           ret.fr[i].geoName < ret.rows[k].geoName

\* a registry search that compares the name field only
CountriesLookupNameOnly(value) ==
  {c \in Countries : StrLower(c.name) = StrLower(value)}

\* the country code the specification describes: the registry is searched by
\* country name
ClaimedCountryCode(s) ==
  LET t == StrStrip(s)
  IN IF t = <<>> THEN <<>>
     ELSE IF Len(t) = 2 /\ StrIsAlpha(t) THEN StrUpper(t)
     ELSE IF CountriesLookupNameOnly(t) = {} THEN <<>>
     ELSE (CHOOSE c \in CountriesLookupNameOnly(t) : TRUE).alpha_2

\* C6 as stated: get_country_code returns "" for an empty or blank input, the
\* upper-cased input for two letters, and otherwise the alpha-2 code of the
\* record whose name matches case-insensitively, "" when no name matches.
C6_LookupByName ==
  ret.call = "get_country_code" => ret.result = ClaimedCountryCode(ret.arg)

\* C6 as amended: ... and otherwise the alpha-2 code of the record one of
\* whose fields (name, alpha-2, alpha-3) matches case-insensitively, "" when
\* no record matches.
C6_LookupByAnyField ==
  ret.call = "get_country_code" =>
    LET t == StrStrip(ret.arg)
    IN /\ t = <<>> => ret.result = <<>>
       /\ (Len(t) = 2 /\ StrIsAlpha(t)) => ret.result = StrUpper(t)
       /\ (t # <<>> /\ ~(Len(t) = 2 /\ StrIsAlpha(t))) =>
            \/ \E c \in Countries :
                 /\ \E f \in CountryFields : StrLower(c[f]) = StrLower(t)
                 /\ ret.result = c.alpha_2
            \/ /\ \A c \in Countries : \A f \in CountryFields :
                    StrLower(c[f]) # StrLower(t)
               /\ ret.result = <<>>

\* a name typed in another case, with a blank before it, resolved to its code
C6_Witness ==
  /\ ret.call = "get_country_code"
  /\ ret.arg = <<" ", "c", "u", "b", "a">> \/ ret.arg = <<"c", "u", "b", "a">>
  /\ ret.result = <<"C", "U">>

\* C7: get_related_queries_df never raises; it returns the first
\* min(10, length) rows, in provider order, of the "top" frame of the first
\* keyword when that frame exists and has rows, and None in every other case
\* (no keyword, no entry, no "top", an empty "top", a request that raised).
C7_RelatedQueriesTopTen ==
  ret.call = "get_related_queries_df" =>
    LET a == ret.outcome.answer
        top == a.dict.entry.top
        usable == /\ a.raised = "none"
                  /\ ret.kws # <<>>
                  /\ ret.kws[1] \in a.dict.keys
                  /\ a.dict.entry.hasTop
                  /\ ~top.isNone
                  /\ top.rows # <<>>
    IN /\ ret.outcome.exc = "none"
       /\ usable => /\ ~ret.outcome.value.isNone
                    /\ ret.outcome.value.rows =
                         [i \in 1..Min(HeadLimit, Len(top.rows)) |-> top.rows[i]]
       /\ ~usable => ret.outcome.value = Absent

\* a "top" frame of more than ten rows, cut to its first ten
C7_Witness ==
  /\ ret.call = "get_related_queries_df"
  /\ ~ret.outcome.value.isNone
  /\ Len(ret.outcome.value.rows) = HeadLimit
  /\ Len(ret.outcome.answer.dict.entry.top.rows) > HeadLimit

\* C8: with no keyword, fetch_interest_over_time_df and get_interest_by_region
\* return an empty frame and make no provider request, and a press of Analyze
\* starts no analysis and makes no provider request.
C8_NoKeywordsNoRequest ==
  /\ (ret.call \in {"fetch_interest_over_time_df", "get_interest_by_region"}
      /\ ret.kws = <<>>) =>
       /\ ret.outcome.requests = <<>>
       /\ ret.outcome.exc = "none"
       /\ ret.outcome.value.columns = {}
  /\ (analyze_clicked /\ keywords = <<>>) => (pc = "idle" /\ log = <<>>)

\* Analyze pressed with no keyword, then the time-series method called on
\* that run's explorer
C8_Witness ==
  /\ analyze_clicked /\ keywords = <<>>
  /\ ret.call = "fetch_interest_over_time_df"
  /\ ret.outcome.requests = <<>>

====
